---- MODULE Spec2Model ----
(***************************************************************************)
(* Model of the prediction tally scraper (tally_predictions.py) and of the *)
(* HTTP wrapper that runs it (app.py).                                     *)
(*                                                                         *)
(* Texts are TLA+ strings, read one character at a time with SubSeq.  The  *)
(* regular expressions of the classifier are kept as syntax trees and      *)
(* matched by a backtracking matcher that enumerates the matches in the    *)
(* order Python's re module tries them, so that greedy and lazy            *)
(* quantifiers, alternation order and leftmost search are those of the     *)
(* code.                                                                   *)
(***************************************************************************)
EXTENDS Integers, Sequences, FiniteSets, TLC

(***************************************************************************)
(* Characters                                                              *)
(***************************************************************************)
UpperChars == "ABCDEFGHIJKLMNOPQRSTUVWXYZ"
LowerChars == "abcdefghijklmnopqrstuvwxyz"
DigitChars == "0123456789"

CharsOf(str) == {SubSeq(str, k, k) : k \in 1..Len(str)}

\* str.lower() / re.IGNORECASE on one character
LowerOf == [c \in CharsOf(UpperChars) |->
              LET k == CHOOSE j \in 1..Len(UpperChars) : SubSeq(UpperChars, j, j) = c
              IN  SubSeq(LowerChars, k, k)]

Lower(c) == IF c \in DOMAIN LowerOf THEN LowerOf[c] ELSE c

RECURSIVE LowerStr(_)
LowerStr(str) ==
    IF Len(str) = 0 THEN ""
    ELSE IF Len(str) = 1 THEN Lower(str)
    ELSE LET h == Len(str) \div 2
         IN  LowerStr(SubSeq(str, 1, h)) \o LowerStr(SubSeq(str, h + 1, Len(str)))

\* the classes of the patterns, already case-folded
Digit  == CharsOf(DigitChars)                    \* \d
Space  == {" ", "\t", "\n", "\r", "\f"}          \* \s
Alpha  == CharsOf(LowerChars)                    \* [A-Za-z] under IGNORECASE
Word   == Alpha \cup Digit \cup {"_"}            \* \w
Sep    == {",", "-"}                             \* [,-] and the en dash, which no text here holds
NameCh == Alpha \cup Space \cup {".", "'"}       \* [A-Za-z\s\.']

CharAt(s, i) == IF i >= 1 /\ i <= Len(s) THEN SubSeq(s, i, i) ELSE ""

\* str.strip()
Strip(str) ==
    LET solid == {k \in 1..Len(str) : SubSeq(str, k, k) \notin Space}
    IN  IF solid = {} THEN ""
        ELSE SubSeq(str, CHOOSE k \in solid : \A j \in solid : k <= j,
                         CHOOSE k \in solid : \A j \in solid : k >= j)

\* int() of a group of one or two digits
DigitVal(c) == (CHOOSE k \in 1..10 : SubSeq(DigitChars, k, k) = c) - 1

RECURSIVE ToInt(_)
ToInt(str) ==
    IF Len(str) = 0 THEN 0
    ELSE 10 * ToInt(SubSeq(str, 1, Len(str) - 1)) + DigitVal(SubSeq(str, Len(str), Len(str)))

\* sub in str
Contains(str, sub) ==
    \E i \in 1..(Len(str) - Len(sub) + 1) : SubSeq(str, i, i + Len(sub) - 1) = sub

(***************************************************************************)
(* Regular expressions: syntax trees                                       *)
(***************************************************************************)
Chr(cs)            == [t |-> "set", cs |-> cs]
AnyChr             == [t |-> "any"]                       \* .
WordB              == [t |-> "wb"]                        \* \b
Cat(rs)            == [t |-> "cat", rs |-> rs]
Alt(rs)            == [t |-> "alt", rs |-> rs]
Grp(n, r)          == [t |-> "grp", n |-> n, r |-> r]
\* r{lo,hi}; unb: no upper limit (r* and r+); greedy: FALSE for r+? and r*?
Rep(r, lo, hi)     == [t |-> "rep", r |-> r, lo |-> lo, hi |-> hi, unb |-> FALSE, greedy |-> TRUE]
Star(r)            == [t |-> "rep", r |-> r, lo |-> 0, hi |-> 0, unb |-> TRUE, greedy |-> TRUE]
Plus(r)            == [t |-> "rep", r |-> r, lo |-> 1, hi |-> 1, unb |-> TRUE, greedy |-> TRUE]
PlusLazy(r)        == [t |-> "rep", r |-> r, lo |-> 1, hi |-> 1, unb |-> TRUE, greedy |-> FALSE]
Opt(r)             == Rep(r, 0, 1)

\* a literal (re.escape of a string), matched under IGNORECASE
Lit(str)           == [t |-> "lit", str |-> LowerStr(str)]

(***************************************************************************)
(* The matcher.  Match(r, s, i, g) is the sequence of the ways r matches   *)
(* s from position i, in the order backtracking tries them; each is the    *)
(* position after the match and the groups captured so far.  s is the text *)
(* in lower case: every pattern with a letter in it is compiled with       *)
(* re.IGNORECASE.                                                          *)
(***************************************************************************)
NoGroups == [n \in 1..4 |-> <<0, 0>>]

\* F(v), with v evaluated once however often F uses it
Let(v, F(_)) == CHOOSE y \in {F(x) : x \in {v}} : TRUE

\* a sequence given as a function, with its elements evaluated
Seq_(f) == f \o <<>>

\* the concatenation of a sequence of sequences
RECURSIVE FlatOf(_, _, _)
FlatOf(ss, lo, hi) ==
    IF lo > hi THEN <<>>
    ELSE IF lo = hi THEN ss[lo]
    ELSE FlatOf(ss, lo, (lo + hi) \div 2) \o FlatOf(ss, (lo + hi) \div 2 + 1, hi)

Flat(ss) == Let(ss, LAMBDA v : FlatOf(v, 1, Len(v)))

\* one character of s at position i matched by a one-character pattern
OneChar(r, s, i) ==
    /\ i <= Len(s)
    /\ IF r.t = "set" THEN SubSeq(s, i, i) \in r.cs ELSE SubSeq(s, i, i) # "\n"

\* the number of characters from position i on that r matches one after another
Run(r, s, i) ==
    Let({j \in i..(Len(s) + 1) : ~OneChar(r, s, j)},
        LAMBDA stops : (CHOOSE j \in stops : \A k \in stops : j <= k) - i)

\* the matches of a repeated single character, given the run: every count
\* from lo up to the run (or hi), the longest first when greedy, the shortest
\* first when lazy
RunMatches(r, i, g, run) ==
    LET top == IF r.unb \/ run < r.hi THEN run ELSE r.hi
        n   == top - r.lo + 1
    IN  IF n <= 0 THEN <<>>
        ELSE Seq_([k \in 1..n |->
                [e |-> i + (IF r.greedy THEN top - k + 1 ELSE r.lo + k - 1), g |-> g]])

RECURSIVE Match(_, _, _, _), MatchCat(_, _, _, _, _), MatchRep(_, _, _, _, _)

Match(r, s, i, g) ==
    CASE r.t \in {"set", "any"} ->
            IF OneChar(r, s, i) THEN <<[e |-> i + 1, g |-> g]>> ELSE <<>>
      [] r.t = "lit" ->
            IF i + Len(r.str) - 1 <= Len(s) /\ SubSeq(s, i, i + Len(r.str) - 1) = r.str
            THEN <<[e |-> i + Len(r.str), g |-> g]>> ELSE <<>>
      [] r.t = "wb" ->
            IF (CharAt(s, i - 1) \in Word) # (CharAt(s, i) \in Word)
            THEN <<[e |-> i, g |-> g]>> ELSE <<>>
      [] r.t = "cat" -> MatchCat(r.rs, 1, s, i, g)
      [] r.t = "alt" -> Flat(Seq_([k \in 1..Len(r.rs) |-> Match(r.rs[k], s, i, g)]))
      [] r.t = "rep" ->
            IF r.r.t \in {"set", "any"}
            THEN Let(Run(r.r, s, i), LAMBDA run : RunMatches(r, i, g, run))
            ELSE MatchRep(r, 0, s, i, g)
      [] r.t = "grp" ->
            Let(Match(r.r, s, i, g), LAMBDA ms :
                Seq_([k \in 1..Len(ms) |->
                    [e |-> ms[k].e, g |-> [ms[k].g EXCEPT ![r.n] = <<i, ms[k].e>>]]]))

MatchCat(rs, k, s, i, g) ==
    IF k > Len(rs) THEN <<[e |-> i, g |-> g]>>
    ELSE Let(Match(rs[k], s, i, g), LAMBDA ms :
             IF Len(ms) = 0 THEN <<>>
             ELSE Flat(Seq_([j \in 1..Len(ms) |-> MatchCat(rs, k + 1, s, ms[j].e, ms[j].g)])))

MatchRep(r, n, s, i, g) ==
    LET stop == IF n >= r.lo THEN <<[e |-> i, g |-> g]>> ELSE <<>>
        more == Let(IF ~r.unb /\ n >= r.hi THEN <<>> ELSE Match(r.r, s, i, g), LAMBDA ms :
                    Flat(Seq_([j \in 1..Len(ms) |->
                        IF ms[j].e > i THEN MatchRep(r, n + 1, s, ms[j].e, ms[j].g)
                        ELSE <<>>])))
    IN  IF r.greedy THEN more \o stop ELSE stop \o more

\* re.search: the first match at the leftmost position that has one
NoMatch == [found |-> FALSE]

FirstMatch(r, low, b) ==
    Let(Match(r, low, b, NoGroups)[1], LAMBDA m :
        [found |-> TRUE, b |-> b, e |-> m.e, g |-> m.g])

SearchLower(r, low) ==
    Let({i \in 1..(Len(low) + 1) : Len(Match(r, low, i, NoGroups)) > 0}, LAMBDA at :
        IF at = {} THEN NoMatch
        ELSE FirstMatch(r, low, CHOOSE i \in at : \A j \in at : i <= j))

Search(r, s) == Let(r, LAMBDA pat : Let(LowerStr(s), LAMBDA low : SearchLower(pat, low)))

\* m.group(0) and m.group(n)
Group0(s, m)   == SubSeq(s, m.b, m.e - 1)
Group(s, m, n) == SubSeq(s, m.g[n][1], m.g[n][2] - 1)

(***************************************************************************)
(* make_team_patterns                                                      *)
(***************************************************************************)
\* {s.strip().lower() for s in team_syns if s.strip()}, in iteration order.
\* A Python set iterates in an order the code does not control; the model
\* iterates in the order of first occurrence and takes the synonym lists in
\* more than one order.
RECURSIVE syn_set(_)
syn_set(team_syns) ==
    IF Len(team_syns) = 0 THEN <<>>
    ELSE LET rest == syn_set(SubSeq(team_syns, 1, Len(team_syns) - 1))
             x    == LowerStr(Strip(team_syns[Len(team_syns)]))
         IN  IF Len(x) = 0 \/ (\E k \in 1..Len(rest) : rest[k] = x) THEN rest
             ELSE Append(rest, x)

InSet(x, set) == \E k \in 1..Len(set) : set[k] = x

\* sorted(..., key=len, reverse=True): stable, longest first
RECURSIVE SortLongestFirst(_)
SortLongestFirst(xs) ==
    IF Len(xs) = 0 THEN <<>>
    ELSE LET rest == SortLongestFirst(SubSeq(xs, 1, Len(xs) - 1))
             x    == xs[Len(xs)]
             n    == Cardinality({k \in 1..Len(rest) : Len(rest[k]) >= Len(x)})
         IN  SubSeq(rest, 1, n) \o <<x>> \o SubSeq(rest, n + 1, Len(rest))

Sp     == Star(Chr(Space))                \* \s*
Score  == Rep(Chr(Digit), 1, 2)           \* \d{1,2}
Colon  == Opt(Chr({":", "-"}))            \* [:\-]?

\* "(" + "|".join(syns) + ")" if syns else "(.*)"
name_group(set) ==
    LET syns == SortLongestFirst(set)
    IN  IF Len(syns) > 0 THEN Grp(1, Alt([k \in 1..Len(syns) |-> Lit(syns[k])]))
        ELSE Grp(1, Star(AnyChr))

contexts(ng) ==
    << Cat(<<Lit("final"), Sp, Lit("score"), Star(Chr({":"} \cup Space)), ng, Sp, Score,
             Chr(Sep), Sp, Plus(Chr(NameCh)), Sp, Score>>),
       Cat(<<Lit("moneyline"), Sp, Lit("pick"), Sp, Colon, Sp, ng>>),
       Cat(<<Lit("pick"), Sp, Colon, Sp, ng>>),
       Cat(<<Lit("prediction"), Sp, Colon, Sp, ng>>),
       Cat(<<Lit("who"), Sp, Lit("wins"), Opt(Chr({"?", ":"})), Sp, ng>>),
       Cat(<<Lit("to"), Sp, Lit("win"), Sp,
             Opt(Alt(<<Lit("outright"), Cat(<<Lit("straight"), Sp, Lit("up")>>)>>)),
             Sp, Colon, Sp, ng>>),
       Cat(<<Lit("winner"), Sp, Colon, Sp, ng>>),
       Cat(<<Lit("straight"), Sp, Lit("up"), Sp, Colon, Sp, ng>>) >>

\* NAME \s*(\d{1,2})\s*[,-]\s*([A-Za-z\s\.']+?)\s*(\d{1,2})
ScoreTail(ng) ==
    <<ng, Sp, Grp(2, Score), Sp, Chr(Sep), Sp, Grp(3, PlusLazy(Chr(NameCh))), Sp, Grp(4, Score)>>

make_team_patterns(team_syns) ==
    LET set == syn_set(team_syns)
        ng  == name_group(set)
    IN  [ctx |-> contexts(ng), scoreline |-> Cat(ScoreTail(ng)), set |-> set]

(***************************************************************************)
(* choose_winner                                                           *)
(***************************************************************************)
Verdict(side, method, phrase) == [side |-> side, method |-> method, phrase |-> phrase]

\* \b(?:spread|cover|ATS)\b  or  \b[+-]\d+(\.\d+)?\b
SpreadWord == Cat(<<WordB, Alt(<<Lit("spread"), Lit("cover"), Lit("ATS")>>), WordB>>)
SignedNum  == Cat(<<WordB, Chr({"+", "-"}), Plus(Chr(Digit)),
                    Opt(Cat(<<Chr({"."}), Plus(Chr(Digit))>>)), WordB>>)

looks_like_spread(s) == Search(SpreadWord, s).found \/ Search(SignedNum, s).found

\* the "final score" pattern built from the synonym set, in the set's order
final_score_pattern(set) ==
    Cat(<<Lit("final"), Sp, Lit("score"), Star(Chr({":"} \cup Space))>>
        \o ScoreTail(Grp(1, Alt([k \in 1..Len(set) |-> Lit(set[k])]))))

\* 0) a "final score" match whose two scores differ: mine is the side of the anchor
NoRule == Verdict("ambiguous", "none", "")

final_score_rule(text, set, mine, other) ==
    Let(IF Len(set) > 0 THEN Search(final_score_pattern(set), text) ELSE NoMatch, LAMBDA m :
        LET s1 == ToInt(Group(text, m, 2))
            s2 == ToInt(Group(text, m, 4))
        IN  IF m.found /\ s1 # s2
            THEN Verdict(IF s1 > s2 THEN mine ELSE other, "final_score", Group0(text, m))
            ELSE NoRule)

\* 1) the first context pattern whose match is no spread and whose token is of the set
explicit_ok(m, text, set) ==
    /\ m.found
    /\ ~looks_like_spread(Group0(text, m))
    /\ Let(LowerStr(Strip(Group(text, m, 1))), LAMBDA token :
            Len(set) = 0 \/ InSet(token, set) \/ token = "")

explicit_rule(text, pats, mine) ==
    Let(Seq_([k \in 1..Len(pats.ctx) |-> Search(pats.ctx[k], text)]), LAMBDA ms :
        Let({k \in 1..Len(ms) : explicit_ok(ms[k], text, pats.set)}, LAMBDA oks :
            IF oks = {} THEN NoRule
            ELSE Verdict(mine, "explicit",
                         Group0(text, ms[CHOOSE j \in oks : \A h \in oks : j <= h]))))

\* 2) the scoreline pattern, the token verified against the set
scoreline_rule(text, pats, mine, other) ==
    Let(Search(pats.scoreline, text), LAMBDA m :
        LET token == LowerStr(Strip(Group(text, m, 1)))
            s1    == ToInt(Group(text, m, 2))
            s2    == ToInt(Group(text, m, 4))
        IN  IF m.found /\ (Len(pats.set) = 0 \/ InSet(token, pats.set)) /\ s1 # s2
            THEN Verdict(IF s1 > s2 THEN mine ELSE other, "scoreline", Group0(text, m))
            ELSE NoRule)

\* 3) \bFIELD[:\s]+([A-Za-z\.\s']+)
weak_fields == <<"moneyline", "pick", "prediction">>

weak_pattern(field) ==
    Cat(<<WordB, Lit(field), Plus(Chr({":"} \cup Space)), Grp(1, Plus(Chr(NameCh)))>>)

AnySynIn(team_syns, blob) ==
    \E k \in 1..Len(team_syns) : Contains(blob, LowerStr(team_syns[k]))

\* weak_one with the field name as the method, the "_field" suffix forgotten
weak_one_untagged(text, field, team_a_syns, team_b_syns) ==
    Let(Search(weak_pattern(field), text), LAMBDA m :
        IF ~m.found \/ looks_like_spread(Group0(text, m)) THEN NoRule
        ELSE Let(LowerStr(Group(text, m, 1)), LAMBDA blob :
                 IF AnySynIn(team_a_syns, blob) THEN Verdict("A", field, Group0(text, m))
                 ELSE IF AnySynIn(team_b_syns, blob) THEN Verdict("B", field, Group0(text, m))
                 ELSE NoRule))

weak_one(text, field, team_a_syns, team_b_syns) ==
    Let(Search(weak_pattern(field), text), LAMBDA m :
        IF ~m.found \/ looks_like_spread(Group0(text, m)) THEN NoRule
        ELSE Let(LowerStr(Group(text, m, 1)), LAMBDA blob :
                 IF AnySynIn(team_a_syns, blob)
                 THEN Verdict("A", field \o "_field", Group0(text, m))
                 ELSE IF AnySynIn(team_b_syns, blob)
                 THEN Verdict("B", field \o "_field", Group0(text, m))
                 ELSE NoRule))

\* the fields in their order, from the k-th on: the first that gives a verdict
RECURSIVE weak_from(_, _, _, _)
weak_from(k, text, team_a_syns, team_b_syns) ==
    IF k > Len(weak_fields) THEN NoRule
    ELSE Let(weak_one(text, weak_fields[k], team_a_syns, team_b_syns), LAMBDA v :
             IF v.side # "ambiguous" THEN v
             ELSE weak_from(k + 1, text, team_a_syns, team_b_syns))

weak_rule(text, team_a_syns, team_b_syns) == weak_from(1, text, team_a_syns, team_b_syns)

rule_at(k, text, pa, pb, team_a_syns, team_b_syns) ==
    CASE k = 1 -> final_score_rule(text, pa.set, "A", "B")
      [] k = 2 -> final_score_rule(text, pb.set, "B", "A")
      [] k = 3 -> explicit_rule(text, pa, "A")
      [] k = 4 -> explicit_rule(text, pb, "B")
      [] k = 5 -> scoreline_rule(text, pa, "A", "B")
      [] k = 6 -> scoreline_rule(text, pb, "B", "A")
      [] k = 7 -> weak_rule(text, team_a_syns, team_b_syns)

\* the rules in their order, from the k-th on: the first that returns
RECURSIVE cascade_from(_, _, _, _, _, _)
cascade_from(k, text, pa, pb, team_a_syns, team_b_syns) ==
    Let(rule_at(k, text, pa, pb, team_a_syns, team_b_syns), LAMBDA v :
        IF v.side # "ambiguous" \/ k = 7 THEN v
        ELSE cascade_from(k + 1, text, pa, pb, team_a_syns, team_b_syns))

choose_winner(text, team_a_syns, team_b_syns) ==
    Let(make_team_patterns(team_a_syns), LAMBDA pa :
        Let(make_team_patterns(team_b_syns), LAMBDA pb :
            cascade_from(1, text, pa, pb, team_a_syns, team_b_syns)))

(***************************************************************************)
(* within_days: utc_dt is None (no date detected) or <<t>>, a date t in     *)
(* seconds on the UTC clock; clock is what datetime.now(timezone.utc)      *)
(* returns at the call.                                                    *)
(***************************************************************************)
None == <<>>
At(t) == <<t>>
DaySeconds == 86400                       \* timedelta(days=1), in seconds

\* within_days with the window's lower bound excluded
within_days_exclusive(utc_dt, days, clock) ==
    IF utc_dt = None THEN FALSE
    ELSE utc_dt[1] > clock - days * DaySeconds

within_days(utc_dt, days, clock) ==
    IF utc_dt = None THEN FALSE
    ELSE utc_dt[1] >= clock - days * DaySeconds

(***************************************************************************)
(* Inputs of the classifier: synonym lists and texts put together from     *)
(* the phrases prediction articles use.                                    *)
(***************************************************************************)
Matchups ==
    << [team_a |-> <<"Houston Texans", "Texans">>, team_b |-> <<"San Francisco 49ers", "49ers">>],
       [team_a |-> <<"Texans", "Houston Texans">>, team_b |-> <<"49ers", "San Francisco 49ers">>],
       [team_a |-> <<"49ers">>, team_b |-> <<"Texans">>],
       [team_a |-> <<"Bears">>, team_b |-> <<"Lions">>],
       [team_a |-> <<>>, team_b |-> <<"Lions">>] >>

\* the name a text uses for a team: its shortest or its longest synonym; a
\* team without synonyms is written with a name that is in no list
Unlisted == "Jets"

Shortest(syns) ==
    IF Len(syns) = 0 THEN Unlisted
    ELSE syns[CHOOSE k \in 1..Len(syns) : \A j \in 1..Len(syns) : Len(syns[k]) <= Len(syns[j])]

Longest(syns) ==
    IF Len(syns) = 0 THEN Unlisted
    ELSE syns[CHOOSE k \in 1..Len(syns) : \A j \in 1..Len(syns) : Len(syns[k]) >= Len(syns[j])]

Sides == {"A", "B"}
Kinds == {"winner", "final_hi", "final_lo", "final_tie", "score_tie", "score_hi",
          "pick_spread", "prediction", "moneyline"}
Neutral == [k |-> "neutral", x |-> "A"]
Phrases == [k : Kinds, x : Sides] \cup {Neutral}

Syns(m, x) == IF x = "A" THEN m.team_a ELSE m.team_b
Opp(x)     == IF x = "A" THEN "B" ELSE "A"

Render(p, m) ==
    LET X == Shortest(Syns(m, p.x))
        Y == Shortest(Syns(m, Opp(p.x)))
    IN  CASE p.k = "winner"      -> "winner: " \o X \o "."
          [] p.k = "final_hi"    -> "Final score: " \o X \o " 24, " \o Y \o " 17."
          [] p.k = "final_lo"    -> "Final score: " \o X \o " 17, " \o Y \o " 24."
          [] p.k = "final_tie"   -> "Final score: " \o X \o " 20, " \o Y \o " 20."
          [] p.k = "score_tie"   -> X \o " 24, " \o Y \o " 24"
          [] p.k = "score_hi"    -> X \o " 27, " \o Y \o " 20"
          [] p.k = "pick_spread" -> "pick: " \o X \o " -2.5 over " \o Y
          [] p.k = "prediction"  -> "Prediction: " \o Longest(Syns(m, p.x)) \o " to win."
          [] p.k = "moneyline"   -> "moneyline: take " \o X
          [] p.k = "neutral"     -> "Both teams look strong."

PhraseSeqs == {<<p>> : p \in Phrases} \cup {<<p, q>> : p \in Phrases, q \in Phrases}

TextOf(ps, m) ==
    IF Len(ps) = 1 THEN Render(ps[1], m)
    ELSE Render(ps[1], m) \o " " \o Render(ps[2], m)

NoVerdict == Verdict("pending", "pending", "")

(***************************************************************************)
(* The scraper run (main) and the request that starts it (tally_batch).    *)
(***************************************************************************)
MaxItems   == 2        \* matchups in one batch request
MaxHits    == 3        \* search hits of one run
MaxElapsed == 3        \* seconds of wall clock the model follows
Days       == 5        \* --days / BatchItem.days default
Rate       == 1        \* --rate default: seconds slept after an admitted page

ItemChoices ==
    << [team_a |-> <<"Bears">>, team_b |-> <<"Lions">>, days |-> Days],
       [team_a |-> <<>>, team_b |-> <<"Lions">>, days |-> Days] >>

\* what a search hit and its fetched page hold: page title, snippet, body text
Docs ==
    << [title |-> "Bears vs Lions prediction", snippet |-> "", text |-> "Pick: Bears"],
       [title |-> "", snippet |-> "Final score: Lions 24, Bears 17", text |-> ""],
       [title |-> "Preview", snippet |-> "", text |-> "Both teams look strong."] >>

\* publish dates a page may carry: none, one second older than the window at
\* the start of the run, exactly the window, and the start of the run
Pubs == {None, At(0 - Days * DaySeconds - 1), At(0 - Days * DaySeconds), At(0)}

\* " ".join([title or "", h.get("snippet","") or "", text or ""])
joined_text(doc) == doc.title \o " " \o doc.snippet \o " " \o doc.text

\* the verdicts of the documents, per matchup choice
classify_doc(i, d) ==
    choose_winner(joined_text(Docs[d]), ItemChoices[i].team_a, ItemChoices[i].team_b)

VerdictTable ==
    Seq_([i \in 1..Len(ItemChoices) |-> Seq_([d \in 1..Len(Docs) |-> classify_doc(i, d)])])

row_of(v) == [winner |-> v.side, winner_method |-> v.method, match_phrase |-> v.phrase]

\* one pass of the loop over the hits, for a page that was fetched: the rows after it
\* process_hit keeping a page the date filter rejects, as an ambiguous row
process_hit_keeps_stale(rs, pub_dt, days, clock, v) ==
    IF ~within_days(pub_dt, days, clock) THEN Append(rs, row_of(Verdict("ambiguous", "none", "")))
    ELSE Append(rs, row_of(v))

process_hit(rs, pub_dt, days, clock, v) ==
    IF ~within_days(pub_dt, days, clock) THEN rs
    ELSE Append(rs, row_of(v))

\* count_winner stopping at the first row of another winner
RECURSIVE count_winner_leading(_, _)
count_winner_leading(rs, w) ==
    IF Len(rs) = 0 \/ Head(rs).winner # w THEN 0
    ELSE 1 + count_winner_leading(Tail(rs), w)

\* int((df["winner"] == w).sum())
RECURSIVE count_winner(_, _)
count_winner(rs, w) ==
    IF Len(rs) = 0 THEN 0
    ELSE (IF Head(rs).winner = w THEN 1 ELSE 0) + count_winner(Tail(rs), w)

\* df.to_csv(out, index=False): a frame without rows has no columns either
\* and is written without a header
NoFile == [header |-> FALSE, records |-> <<>>]
to_csv(rs) == [header |-> Len(rs) > 0, records |-> rs]

\* csv.DictReader over the file, each record made a SourceRow
csv_to_rows(file) ==
    IF ~file.header THEN <<>>
    ELSE [k \in 1..Len(file.records) |->
            [winner        |-> IF file.records[k].winner = "" THEN "ambiguous"
                               ELSE file.records[k].winner,
             winner_method |-> file.records[k].winner_method,
             match_phrase  |-> file.records[k].match_phrase,
             bet_type      |-> "unknown"]]

\* sum(1 for r in rows if r.winner == w)
tally(rs) ==
    [votes_team_a |-> count_winner(rs, "A"),
     votes_team_b |-> count_winner(rs, "B"),
     ambiguous    |-> count_winner(rs, "ambiguous")]

\* dominant with a tie given to team A
dominant_ties_to_a(votes_a, votes_b) ==
    IF votes_a >= votes_b THEN "Team A"
    ELSE IF votes_b > votes_a THEN "Team B"
    ELSE "Tie"

dominant(votes_a, votes_b) ==
    IF votes_a > votes_b THEN "Team A"
    ELSE IF votes_b > votes_a THEN "Team B"
    ELSE "Tie"

VARIABLES
    phrases,     \* classifier input: the phrases of the text
    matchup,     \* classifier input: index of the synonym lists
    verdict,     \* what choose_winner returned for them
    pc,          \* "app", "loop", "exited", "done"
    items,       \* the batch items still to run (indices of ItemChoices)
    hits,        \* hits the loop of main has still to visit
    rows,        \* rows of main
    now,         \* the UTC clock, seconds since the request came in
    file,        \* the CSV file of the run
    returncode,  \* exit status of the scraper process
    printed,     \* <<the tally main printed>>, or None
    summaries,   \* summaries of tally_batch
    status,      \* "running", "ok", "http500"
    eligible,    \* pages of this run fetched with a date inside the window
    checks,      \* the within_days calls of this run: date, clock, result
    fetch_failed \* hits of this run whose fetch_page raised

vars == <<phrases, matchup, verdict, pc, items, hits, rows, now, file, returncode,
          printed, summaries, status, eligible, checks, fetch_failed>>

classifier_vars == <<phrases, matchup, verdict>>
run_vars == <<pc, items, hits, rows, now, file, returncode, printed, summaries,
              status, eligible, checks, fetch_failed>>

RunIdle ==
    /\ pc = "app" /\ hits = 0 /\ rows = <<>> /\ now = 0 /\ file = NoFile
    /\ returncode = 0 /\ printed = None /\ summaries = <<>> /\ status = "running"
    /\ eligible = 0 /\ checks = {} /\ fetch_failed = 0

(***************************************************************************)
(* The classifier on its own                                               *)
(***************************************************************************)
ClassifyInit ==
    /\ phrases \in PhraseSeqs
    /\ matchup \in 1..Len(Matchups)
    /\ verdict = NoVerdict
    /\ items = <<>>
    /\ RunIdle

Classify ==
    /\ verdict = NoVerdict
    /\ verdict' = choose_winner(TextOf(phrases, Matchups[matchup]),
                                Matchups[matchup].team_a, Matchups[matchup].team_b)
    /\ UNCHANGED <<phrases, matchup>>
    /\ UNCHANGED run_vars

ClassifyNext == Classify

ClassifySpec == ClassifyInit /\ [][ClassifyNext]_vars

(***************************************************************************)
(* A batch request                                                         *)
(***************************************************************************)
ItemSeqs(n) == UNION {[1..k -> 1..Len(ItemChoices)] : k \in 1..n}

Init ==
    /\ phrases = <<Neutral>> /\ matchup = 1 /\ verdict = NoVerdict
    /\ items \in ItemSeqs(MaxItems)
    /\ RunIdle

Item == ItemChoices[Head(items)]

\* tally_batch starts the scraper for the next item; main searches
Launch ==
    /\ pc = "app" /\ Len(items) > 0
    /\ \E n \in 0..MaxHits : hits' = n
    /\ rows' = <<>> /\ file' = NoFile /\ returncode' = 0 /\ printed' = None
    /\ eligible' = 0 /\ checks' = {} /\ fetch_failed' = 0
    /\ pc' = "loop"
    /\ UNCHANGED <<items, now, summaries, status>>
    /\ UNCHANGED classifier_vars

\* a hit without link, or with a domain the allow and deny lists filter out
SkipHit ==
    /\ pc = "loop" /\ hits > 0
    /\ hits' = hits - 1
    /\ UNCHANGED <<pc, items, rows, now, file, returncode, printed, summaries, status,
                   eligible, checks, fetch_failed>>
    /\ UNCHANGED classifier_vars

\* fetch_page raises: the page is skipped
FetchFails ==
    /\ pc = "loop" /\ hits > 0
    /\ \E dt \in 0..1 :
          /\ now + dt <= MaxElapsed
          /\ now' = now + dt
    /\ hits' = hits - 1
    /\ fetch_failed' = fetch_failed + 1
    /\ UNCHANGED <<pc, items, rows, file, returncode, printed, summaries, status,
                   eligible, checks>>
    /\ UNCHANGED classifier_vars

\* the page is fetched (taking dt seconds), filtered by date, classified, and
\* the run sleeps after a page it kept
Fetched(pub, d, dt) ==
    LET clock == now + dt
        kept  == within_days(pub, Item.days, clock)
    IN  /\ pc = "loop" /\ hits > 0
        /\ clock + (IF kept THEN Rate ELSE 0) <= MaxElapsed
        /\ rows' = process_hit(rows, pub, Item.days, clock, VerdictTable[Head(items)][d])
        /\ now' = clock + (IF kept THEN Rate ELSE 0)
        /\ hits' = hits - 1
        /\ eligible' = IF pub # None /\ pub[1] >= clock - Item.days * DaySeconds
                        THEN eligible + 1 ELSE eligible
        /\ checks' = checks \cup {[pub |-> pub, at |-> clock, kept |-> kept]}
        /\ UNCHANGED <<pc, items, file, returncode, printed, summaries, status, fetch_failed>>
        /\ UNCHANGED classifier_vars

RejectStale ==
    \E pub \in Pubs, dt \in 0..1 :
        /\ pc = "loop"
        /\ ~within_days(pub, Item.days, now + dt)
        /\ Fetched(pub, 1, dt)

AdmitAndClassify ==
    \E pub \in Pubs, d \in 1..Len(Docs), dt \in 0..1 :
        /\ pc = "loop"
        /\ within_days(pub, Item.days, now + dt)
        /\ Fetched(pub, d, dt)

\* no rows: the empty CSV is written and the run exits with 0
FinishEmpty ==
    /\ pc = "loop" /\ hits = 0 /\ Len(rows) = 0
    /\ file' = to_csv(rows)
    /\ returncode' = 0
    /\ pc' = "exited"
    /\ UNCHANGED <<items, hits, rows, now, printed, summaries, status, eligible, checks,
                   fetch_failed>>
    /\ UNCHANGED classifier_vars

\* rows: the CSV is written, the votes are counted and printed under the
\* teams' first synonyms; a team without synonyms has no first one
FinishTally ==
    /\ pc = "loop" /\ hits = 0 /\ Len(rows) > 0
    /\ file' = to_csv(rows)
    /\ IF Len(Item.team_a) = 0 \/ Len(Item.team_b) = 0
       THEN returncode' = 1 /\ printed' = None
       ELSE /\ returncode' = 0
            /\ printed' = <<[a_votes |-> count_winner(rows, "A"),
                              b_votes |-> count_winner(rows, "B"),
                              ambig   |-> count_winner(rows, "ambiguous")]>>
    /\ pc' = "exited"
    /\ UNCHANGED <<items, hits, rows, now, summaries, status, eligible, checks,
                   fetch_failed>>
    /\ UNCHANGED classifier_vars

\* tally_batch after the process ended: a failed run or a team without a
\* first synonym ends the request with an error; otherwise the rows are read
\* back, counted and summarised
Summarise ==
    /\ pc = "exited"
    /\ IF returncode # 0 \/ Len(Item.team_a) = 0 \/ Len(Item.team_b) = 0
       THEN /\ status' = "http500"
            /\ pc' = "done"
            /\ UNCHANGED <<items, summaries>>
       ELSE LET t == tally(csv_to_rows(file))
            IN  /\ summaries' = Append(summaries,
                        [votes_team_a |-> t.votes_team_a,
                         votes_team_b |-> t.votes_team_b,
                         ambiguous    |-> t.ambiguous,
                         dominant     |-> dominant(t.votes_team_a, t.votes_team_b)])
                /\ items' = Tail(items)
                /\ pc' = IF Len(items) = 1 THEN "done" ELSE "app"
                /\ status' = IF Len(items) = 1 THEN "ok" ELSE status
    /\ UNCHANGED <<hits, rows, now, file, returncode, printed, eligible, checks,
                   fetch_failed>>
    /\ UNCHANGED classifier_vars

Next ==
    \/ Launch
    \/ SkipHit
    \/ FetchFails
    \/ RejectStale
    \/ AdmitAndClassify
    \/ FinishEmpty
    \/ FinishTally
    \/ Summarise

Spec == Init /\ [][Next]_vars

(***************************************************************************)
(* Properties of the classifier (checked under ClassifySpec)               *)
(***************************************************************************)
Classified == verdict # NoVerdict
TeamsNamed == Len(Matchups[matchup].team_a) > 0 /\ Len(Matchups[matchup].team_b) > 0
HasPhrase(k, x) == \E i \in 1..Len(phrases) : phrases[i] = [k |-> k, x |-> x]
Is(side, method) == verdict.side = side /\ verdict.method = method

\* C1: a text with an explicit "winner: A" phrase and a final-score statement
\* anchored on team B with B's score the higher is given to B by the
\* final-score rule, never to A by an explicit rule.
C1_FinalScoreBeatsExplicit ==
    (Classified /\ TeamsNamed /\ HasPhrase("winner", "A") /\ HasPhrase("final_hi", "B"))
        => Is("B", "final_score")

\* C2: "Prediction: Houston Texans to win. Final score: Texans 24, 49ers 17."
\* is given to A by the final-score rule; and whenever the first final-score
\* statement is anchored on team A with two different scores, the side with
\* the higher score wins by the final-score rule.
C2_FinalScoreHigherSideWins ==
    (Classified /\ TeamsNamed) =>
        /\ (matchup = 1 /\ phrases = <<[k |-> "prediction", x |-> "A"],
                                        [k |-> "final_hi", x |-> "A"]>>)
              => Is("A", "final_score")
        /\ phrases[1] = [k |-> "final_hi", x |-> "A"] => Is("A", "final_score")
        /\ phrases[1] = [k |-> "final_lo", x |-> "A"] => Is("B", "final_score")

\* C3: a scoreline with two equal scores and nothing else in the text, such
\* as "Texans 24, 49ers 24", is ambiguous with method none.
C3_ScorelineTieAmbiguous ==
    (Classified /\ TeamsNamed /\ phrases = <<[k |-> "score_tie", x |-> "A"]>>)
        => verdict = Verdict("ambiguous", "none", "")

\* C4: the spread statement "pick: Texans -2.5 over 49ers", with nothing else
\* in the text, gives no team verdict: the result is ambiguous with method none.
C4_SpreadGuard ==
    (Classified /\ TeamsNamed /\ phrases = <<[k |-> "pick_spread", x |-> "A"]>>)
        => verdict = Verdict("ambiguous", "none", "")

\* C5: every verdict has method none exactly when its side is ambiguous, an
\* empty matched phrase exactly then, and an A or B verdict has one of the
\* six methods.
TeamMethods == {"final_score", "explicit", "scoreline", "moneyline_field", "pick_field",
                "prediction_field"}

C5_MethodNoneIffAmbiguous ==
    Classified =>
        /\ verdict.side \in {"A", "B", "ambiguous"}
        /\ (verdict.method = "none") <=> (verdict.side = "ambiguous")
        /\ (verdict.phrase = "") <=> (verdict.side = "ambiguous")
        /\ verdict.side \in {"A", "B"} => verdict.method \in TeamMethods

C5_Witness ==
    /\ Classified
    /\ Len(Matchups[matchup].team_a) = 0
    /\ Is("B", "moneyline_field")
    /\ verdict.phrase # ""

(***************************************************************************)
(* Properties of the run (checked under Spec)                              *)
(***************************************************************************)
Window == Days * DaySeconds

\* C6: within_days is false for an absent date and otherwise true exactly
\* when the date is not before now minus the window: a date exactly at the
\* bound is admitted, one second older is rejected.
C6_WithinDaysInclusive ==
    \A c \in checks : c.kept <=> (c.pub # None /\ c.pub[1] >= c.at - Window)

C6_Witness ==
    \E c1, c2 \in checks :
        /\ c1.pub = At(c1.at - Window) /\ c1.kept
        /\ c2.pub = At(c2.at - Window - 1) /\ ~c2.kept

\* C7: within one run two documents with the same publish date get the same
\* decision of the date filter, whatever time passes between them.
C7_SameCutoffWithinRun ==
    \A c1, c2 \in checks : c1.pub = c2.pub => c1.kept = c2.kept

\* C8: a page the date filter rejects gives no row and no count: the rows
\* are as many as the pages inside the window, and so is the sum of the three
\* counters of the tally main prints and of the summary made from its file.
Summarised == pc \in {"app", "done"} /\ status # "http500" /\ Len(summaries) > 0
LastSummary == summaries[Len(summaries)]

C8_RejectedNeverTallied ==
    /\ Len(rows) = eligible
    /\ printed # None =>
          printed[1].a_votes + printed[1].b_votes + printed[1].ambig = eligible
    /\ Summarised =>
          LastSummary.votes_team_a + LastSummary.votes_team_b + LastSummary.ambiguous
              = eligible

C8_Witness ==
    /\ Summarised
    /\ printed # None
    /\ eligible > 0
    /\ \E c \in checks : ~c.kept

\* C9: the tally counts the A, B and ambiguous verdicts: every order of the
\* same rows gives the same tally, and counting the rows of the file again
\* gives the tally main printed and the summary holds.
Count(rs, w) == Cardinality({k \in 1..Len(rs) : rs[k].winner = w})
Permuted(rs, p) == [k \in 1..Len(rs) |-> rs[p[k]]]

C9_TallyIsMultisetCount ==
    LET rs == csv_to_rows(file)
        t  == tally(rs)
    IN  /\ t = [votes_team_a |-> Count(rs, "A"), votes_team_b |-> Count(rs, "B"),
                 ambiguous |-> Count(rs, "ambiguous")]
        /\ \A p \in Permutations(1..Len(rs)) : tally(Permuted(rs, p)) = t
        /\ printed # None =>
              /\ printed[1].a_votes = t.votes_team_a
              /\ printed[1].b_votes = t.votes_team_b
              /\ printed[1].ambig = t.ambiguous
        /\ Summarised =>
              /\ LastSummary.votes_team_a = t.votes_team_a
              /\ LastSummary.votes_team_b = t.votes_team_b
              /\ LastSummary.ambiguous = t.ambiguous

C9_Witness ==
    /\ Summarised
    /\ Len(file.records) = 2
    /\ file.records[1].winner = "ambiguous"
    /\ file.records[2].winner = "A"

\* C10: the dominant label of every matchup of a batch is "Team A" when A has
\* more votes, "Team B" when B has more, and "Tie" otherwise, 0 to 0 included.
C10_DominantLabel ==
    \A k \in 1..Len(summaries) :
        LET a == summaries[k].votes_team_a
            b == summaries[k].votes_team_b
            d == summaries[k].dominant
        IN  /\ d \in {"Team A", "Team B", "Tie"}
            /\ d = "Team A" <=> a > b
            /\ d = "Team B" <=> b > a
            /\ d = "Tie" <=> a = b

C10_Witness ==
    /\ Len(summaries) = 2
    /\ summaries[1].votes_team_a = 0 /\ summaries[1].votes_team_b = 0
    /\ summaries[1].dominant = "Tie"
    /\ summaries[2].dominant = "Team B"

(***************************************************************************)
(* Properties of runs that meet trouble (checked under Spec)               *)
(***************************************************************************)
\* the request is past the last run: its summary is made, or the request failed
Processed == pc \in {"app", "done"} /\ (Len(summaries) > 0 \/ status = "http500")
ItemNamed == Len(Item.team_a) > 0 /\ Len(Item.team_b) > 0
ZeroTally == [votes_team_a |-> 0, votes_team_b |-> 0, ambiguous |-> 0, dominant |-> "Tie"]

\* C11: a run without an eligible page (no hit, or every hit skipped, failed
\* or rejected by the date filter) does not fail: the scraper exits with 0 and
\* the matchup's summary is 0 votes for A, 0 for B, 0 ambiguous, dominant Tie.
C11_ZeroEligibleZeroTally ==
    /\ (pc = "exited" /\ eligible = 0) => returncode = 0
    /\ (Processed /\ eligible = 0) => (status # "http500" /\ LastSummary = ZeroTally)

\* C11 for a matchup whose two teams both have a synonym: the step after such
\* a run appends the zero summary and the request does not fail.
C11_NamedTeamsZeroTally ==
    [][(pc = "exited" /\ eligible = 0 /\ ItemNamed)
          => (returncode = 0 /\ status' # "http500"
              /\ summaries' = Append(summaries, ZeroTally))]_vars

\* C12: a matchup with an empty synonym list is not fatal: its pages are
\* still classified, the scraper exits with 0 and the request does not fail,
\* whether or not a page was admitted.
C12_EmptySynonymsNotFatal ==
    (Len(items) > 0 /\ ~ItemNamed) =>
        /\ \A k \in 1..Len(rows) : rows[k].winner \in {"A", "B", "ambiguous"}
        /\ pc = "exited" => returncode = 0
        /\ status # "http500"

\* C12, the scraper's part with a page admitted: the run of a matchup with an
\* empty synonym list that has rows exits with 0.
C12_ScraperSurvivesWithRows ==
    (pc = "exited" /\ ~ItemNamed /\ Len(rows) > 0) => returncode = 0

\* C12, the classifier's part: choose_winner returns a verdict for a matchup
\* with an empty synonym list (holds under ClassifySpec).
C12_ClassifiesWithoutSynonyms ==
    (Classified /\ ~TeamsNamed) => verdict.side \in {"A", "B", "ambiguous"}

\* C13: a fetch that raises is skipped and does not abort the matchup: in a
\* run where some fetch raised the loop goes on over the hits that are left,
\* the rows are the pages fetched and admitted, the scraper exits with 0 and
\* the matchup's summary counts exactly those pages.
SummaryVotes(s) == s.votes_team_a + s.votes_team_b + s.ambiguous

C13_FetchFailureSkipped ==
    fetch_failed > 0 =>
        /\ hits > 0 => pc = "loop"
        /\ Len(rows) = eligible
        /\ pc = "exited" => returncode = 0
        /\ Processed => (status # "http500" /\ SummaryVotes(LastSummary) = eligible)

\* C13 for a matchup whose two teams both have a synonym: the step of a
\* fetch that raises only moves on to the next hit, and the step after a run
\* with such a fetch appends a summary that counts the admitted pages.
C13_NamedTeamsFetchFailureSkipped ==
    [][/\ fetch_failed' = fetch_failed + 1
            => (pc' = "loop" /\ rows' = rows /\ hits' = hits - 1)
       /\ (pc = "exited" /\ fetch_failed > 0 /\ ItemNamed)
            => /\ returncode = 0
               /\ status' # "http500"
               /\ Len(summaries') = Len(summaries) + 1
               /\ SummaryVotes(summaries'[Len(summaries')]) = eligible
               /\ Len(rows) = eligible]_vars

====
